---- MODULE Spec2Model ----
(***************************************************************************)
(* The session controller of the Sudoku web application (src/web.rs): the  *)
(* Model struct, the Msg enum and the update function, one action per Msg  *)
(* variant.  The puzzle engine (crate `sudoku`: Sudoku, Board, Square,     *)
(* Number) is a collaborator whose code is not part of web.rs; its         *)
(* operations are modelled from their documented contract.                 *)
(***************************************************************************)
EXTENDS Integers, FiniteSets, Sequences, TLC

\* ---- bounds of the model -------------------------------------------------
\* A generated puzzle has at most MaxHoles empty cells (the application asks
\* for 35 givens, i.e. 46 empty cells; the model keeps the 9x9 geometry and
\* bounds the number of cells left to fill).
MaxHoles == 2
\* miss_count is a u32; the model stops counting wrong placements at MaxMiss.
MaxMiss == 2
\* The monotonic clock read by Instant::now() takes the values 0..MaxClock.
MaxClock == 1

\* ---- value domains (crate sudoku, used by web.rs) ------------------------
\* Option::None, for Option<Square> and Option<Number> alike.
None == -1

Squares == 0..80
Numbers == 1..9

col(sq) == sq % 9
row(sq) == sq \div 9
block(sq) == (row(sq) \div 3) * 3 + (col(sq) \div 3)

\* The squares that share a column, a row or a block with sq (sq excluded).
Peers ==
  [sq \in Squares |->
     {p \in Squares : p # sq /\ (col(p) = col(sq) \/ row(p) = row(sq) \/ block(p) = block(sq))}]

\* Board::empty(): every square unset.
EmptyBoard == [sq \in Squares |-> None]

\* ---- the puzzle engine ---------------------------------------------------
\* The 9 rows, the 9 columns and the 9 blocks, each as its set of squares.
Units ==
  {{9 * r + c : c \in 0..8} : r \in 0..8}
    \cup {{9 * r + c : r \in 0..8} : c \in 0..8}
    \cup {{27 * (b \div 3) + 3 * (b % 3) + 9 * (k \div 3) + (k % 3) : k \in 0..8} : b \in 0..8}

\* No two peers hold the same number: the filled squares of a row, a column or
\* a block hold as many different numbers as there are of them.
IsConsistent(board) ==
  \A u \in Units :
    Cardinality({board[sq] : sq \in u} \ {None}) = Cardinality({sq \in u : board[sq] # None})

\* Sudoku::is_solved(): the board is completely filled and is a valid solution.
is_solved(board) ==
  /\ \A sq \in Squares : board[sq] # None
  /\ IsConsistent(board)

\* Sudoku::put(sq, num): places num on sq iff sq is empty and no peer of sq
\* holds num; reports whether it did.
put(board, sq, num) ==
  IF board[sq] = None /\ \A p \in Peers[sq] : board[p] # num
    THEN [ok |-> TRUE, board |-> [board EXCEPT ![sq] = num]]
    ELSE [ok |-> FALSE, board |-> board]

\* Two complete valid grids the generator may draw.
BaseSolution ==
  [sq \in Squares |-> (((row(sq) % 3) * 3 + (row(sq) \div 3) + col(sq)) % 9) + 1]

Relabel(board) == [sq \in Squares |-> (board[sq] % 9) + 1]

Solutions == {BaseSolution, Relabel(BaseSolution)}

\* The squares the generator may leave empty: 10, 20, ... (on the diagonal,
\* so that the puzzle keeps a unique solution).
HoleCandidates == {10 * k : k \in 1..MaxHoles}

\* Sudoku::generate_unique(35): the pairs <<puzzle board, solution board>> it may
\* return: a valid solution with a non-empty set of its squares emptied.
generate_unique ==
  {<<[sq \in Squares |-> IF sq \in H THEN None ELSE s[sq]], s>> :
      s \in Solutions, H \in (SUBSET HoleCandidates) \ {{}}}

\* ---- the messages the model delivers -------------------------------------
\* Squares clicked: every square the generator may leave empty, and one given.
InputSquares == HoleCandidates \cup {0}

\* Digits clicked for a square: the digit each possible solution holds there
\* (the digit of one solution is a wrong digit under the other).
InputNumbers(sq) == {s[sq] : s \in Solutions}

\* ---- state ---------------------------------------------------------------
VARIABLES
  sudoku,       \* Model::sudoku: the working board of the Sudoku instance
  solution,     \* Model::solution
  sq_selected,  \* Model::sq_selected
  sq_missed,    \* Model::sq_missed
  miss_count,   \* Model::miss_count
  state,        \* Model::state
  clock,        \* the monotonic clock behind Instant::now()
  panicked,     \* update panicked (unwrap of None in solution_at)
  msg,          \* the message update processed last, and the phase it met
  last_put,     \* outcome of the last PutNumber since the last Reset
  queue         \* messages sent with orders.send_msg and not yet processed

modelVars == <<sudoku, solution, sq_selected, sq_missed, miss_count, state>>
vars == <<sudoku, solution, sq_selected, sq_missed, miss_count, state,
          clock, panicked, msg, last_put, queue>>

\* enum State
Startup == [tag |-> "Startup"]
Playing(now) == [tag |-> "Playing", now |-> now]
Completed(dur) == [tag |-> "Completed", dur |-> dur]

\* enum Msg, with the phase in which update received it
Message(kind, sq, num) == [kind |-> kind, sq |-> sq, num |-> num, phase |-> state.tag]

NoPut == [kind |-> "none", sq |-> None]

\* Model::solution_at
solution_at(sq) == solution[sq]

\* init returns Model::default(); nothing has been processed yet.
Init ==
  /\ sudoku = EmptyBoard
  /\ solution = EmptyBoard
  /\ sq_selected = None
  /\ sq_missed = None
  /\ miss_count = 0
  /\ state = Startup
  /\ clock = 0
  /\ panicked = FALSE
  /\ msg = [kind |-> "none", sq |-> None, num |-> None, phase |-> "Startup"]
  /\ last_put = NoPut
  /\ queue = <<>>

\* A message is delivered at some time not before the previous one; when
\* messages sent with send_msg are pending, it is the first of them.
Deliver(m) ==
  /\ ~panicked
  /\ clock' \in clock..MaxClock
  /\ msg' = m
  /\ queue' = IF queue = <<>> THEN queue ELSE Tail(queue)

\* Faulty variant of TimerTick: the tick restarts the timer of a running session.
TimerTick_Restart ==
  /\ Deliver(Message("TimerTick", None, None))
  /\ state' = IF state.tag = "Playing" THEN Playing(clock') ELSE state
  /\ UNCHANGED <<sudoku, solution, sq_selected, sq_missed, miss_count, panicked, last_put>>

\* Msg::TimerTick => {}
TimerTick ==
  /\ Deliver(Message("TimerTick", None, None))
  /\ UNCHANGED <<modelVars, panicked, last_put>>

\* Faulty variant of Reset: the miss marker of the previous session is kept.
Reset_KeepMarker ==
  /\ Deliver(Message("Reset", None, None))
  /\ \E g \in generate_unique :
       /\ sudoku' = g[1]
       /\ solution' = g[2]
  /\ sq_selected' = None
  /\ miss_count' = 0
  /\ state' = Playing(clock')
  /\ last_put' = NoPut
  /\ UNCHANGED <<sq_missed, panicked>>

\* Msg::Reset
Reset ==
  /\ Deliver(Message("Reset", None, None))
  /\ \E g \in generate_unique :
       /\ sudoku' = g[1]
       /\ solution' = g[2]
  /\ sq_selected' = None
  /\ sq_missed' = None
  /\ miss_count' = 0
  /\ state' = Playing(clock')
  /\ last_put' = NoPut
  /\ UNCHANGED panicked

\* Faulty variant of SelectSquare: selecting the selected square deselects it.
SelectSquare_Toggle(sq) ==
  /\ Deliver(Message("SelectSquare", sq, None))
  /\ sq_selected' = IF sq_selected = sq THEN None ELSE sq
  /\ UNCHANGED <<sudoku, solution, sq_missed, miss_count, state, panicked, last_put>>

\* Msg::SelectSquare(sq)
SelectSquare(sq) ==
  /\ Deliver(Message("SelectSquare", sq, None))
  /\ sq_selected' = sq
  /\ UNCHANGED <<sudoku, solution, sq_missed, miss_count, state, panicked, last_put>>

\* Faulty variant of PutMiss: the miss is marked but not counted.
PutMiss_NoCount(sq) ==
  /\ miss_count < MaxMiss
  /\ sq_missed' = sq
  /\ UNCHANGED <<sudoku, solution, sq_selected, state, miss_count>>

\* Faulty variant of PutMiss: a miss also empties the square.
PutMiss_ClearSquare(sq) ==
  /\ miss_count < MaxMiss
  /\ sq_missed' = sq
  /\ miss_count' = miss_count + 1
  /\ sudoku' = [sudoku EXCEPT ![sq] = None]
  /\ UNCHANGED <<solution, sq_selected, state>>

\* Msg::PutNumber, num != solution_at(sq): the miss branch
PutMiss(sq) ==
  /\ miss_count < MaxMiss
  /\ sq_missed' = sq
  /\ miss_count' = miss_count + 1
  /\ UNCHANGED <<sudoku, solution, sq_selected, state>>

\* Faulty variant of CompletionCheck: is_solved() is not consulted.
CompletionCheck_NoSolvedTest(board, st, t) ==
  IF st.tag = "Playing" THEN Completed(t - st.now) ELSE st

\* Faulty variant of CompletionCheck: a solved board stamps the duration again
\* when the session is already Completed.
CompletionCheck_Restamp(board, st, t) ==
  IF is_solved(board)
    THEN IF st.tag = "Playing" THEN Completed(t - st.now) ELSE Completed(t)
    ELSE st

\* Faulty variant of CompletionCheck: a solved board met while Completed starts
\* the session again.
CompletionCheck_Reopen(board, st, t) ==
  IF is_solved(board)
    THEN IF st.tag = "Playing" THEN Completed(t - st.now) ELSE Playing(t)
    ELSE st

\* Faulty variant of CompletionCheck: the duration is the clock's reading, not
\* the time elapsed since the start instant.
CompletionCheck_ClockAsDuration(board, st, t) ==
  IF is_solved(board)
    THEN IF st.tag = "Playing" THEN Completed(t) ELSE st
    ELSE st

\* Faulty variant of CompletionCheck: a session with a counted miss is never
\* completed.
CompletionCheck_OnlyFlawless(board, st, t) ==
  IF is_solved(board) /\ miss_count = 0
    THEN IF st.tag = "Playing" THEN Completed(t - st.now) ELSE st
    ELSE st

\* Msg::PutNumber, the completion check: the state after it, for the board
\* after the placement, the state before it and the time now.
CompletionCheck(board, st, t) ==
  IF is_solved(board)
    THEN IF st.tag = "Playing" THEN Completed(t - st.now) ELSE st
    ELSE st

\* Faulty variants of PutHit: the miss marker is not cleared;
PutHit_KeepMarker(sq, num) ==
  /\ sudoku' = put(sudoku, sq, num).board
  /\ state' = CompletionCheck(sudoku', state, clock')
  /\ UNCHANGED <<solution, sq_selected, miss_count, sq_missed>>

\* the miss marker is cleared only when it marks the square placed on;
PutHit_ClearOwnMarker(sq, num) ==
  /\ sudoku' = put(sudoku, sq, num).board
  /\ sq_missed' = IF sq_missed = sq THEN None ELSE sq_missed
  /\ state' = CompletionCheck(sudoku', state, clock')
  /\ UNCHANGED <<solution, sq_selected, miss_count>>

\* a correct placement takes back one miss;
PutHit_ForgiveMiss(sq, num) ==
  /\ sudoku' = put(sudoku, sq, num).board
  /\ sq_missed' = None
  /\ miss_count' = IF miss_count > 0 THEN miss_count - 1 ELSE 0
  /\ state' = CompletionCheck(sudoku', state, clock')
  /\ UNCHANGED <<solution, sq_selected>>

\* a correct placement clears the selection.
PutHit_Deselect(sq, num) ==
  /\ sudoku' = put(sudoku, sq, num).board
  /\ sq_missed' = None
  /\ sq_selected' = None
  /\ state' = CompletionCheck(sudoku', state, clock')
  /\ UNCHANGED <<solution, miss_count>>

\* Faulty variant of PutHit: update returns when put() reports a failure.
PutHit_ReturnOnReject(sq, num) ==
  IF put(sudoku, sq, num).ok
    THEN /\ sudoku' = put(sudoku, sq, num).board
         /\ sq_missed' = None
         /\ state' = CompletionCheck(sudoku', state, clock')
         /\ UNCHANGED <<solution, sq_selected, miss_count>>
    ELSE UNCHANGED <<sudoku, solution, sq_selected, sq_missed, miss_count, state>>

\* Msg::PutNumber, num == solution_at(sq): the placement branch
PutHit(sq, num) ==
  /\ sudoku' = put(sudoku, sq, num).board
  /\ sq_missed' = None
  /\ state' = CompletionCheck(sudoku', state, clock')
  /\ UNCHANGED <<solution, sq_selected, miss_count>>

\* Msg::PutNumber { sq, num }
PutNumber(sq, num) ==
  /\ Deliver(Message("PutNumber", sq, num))
  /\ IF solution_at(sq) = None
       THEN \* unwrap() of None panics
            /\ panicked' = TRUE
            /\ UNCHANGED <<modelVars, last_put>>
       ELSE /\ UNCHANGED panicked
            /\ IF num # solution_at(sq)
                 THEN /\ PutMiss(sq)
                      /\ last_put' = [kind |-> "wrong", sq |-> sq]
                 ELSE /\ PutHit(sq, num)
                      /\ last_put' = [kind |-> "correct", sq |-> None]

\* update, called with any message in any state; nothing is sent with send_msg.
Next ==
  \/ TimerTick
  \/ Reset
  \/ \E sq \in InputSquares : SelectSquare(sq)
  \/ \E sq \in InputSquares : \E num \in InputNumbers(sq) : PutNumber(sq, num)

Spec == Init /\ [][Next]_vars

TypeOK ==
  /\ sq_selected \in InputSquares \cup {None}
  /\ sq_missed \in InputSquares \cup {None}
  /\ miss_count \in 0..MaxMiss
  /\ state.tag \in {"Startup", "Playing", "Completed"}
  /\ clock \in 0..MaxClock

\* ---- the view (recomputed from the model at every render) ----------------
\* Square::all().into_iter().filter(|&sq| board[sq] == Some(num)).count(),
\* counted over the squares from..80.
RECURSIVE count_from(_, _, _)
count_from(board, num, from) ==
  IF from > 80 THEN 0
  ELSE (IF board[from] = num THEN 1 ELSE 0) + count_from(board, num, from + 1)

\* Faulty variant of is_completed: the digits are counted on the solution.
is_completed_OnSolution(num) == count_from(solution, num, 0) = 9

\* view_number: is_completed, the palette flag of num
is_completed(num) == count_from(sudoku, num, 0) = 9

\* view_board_square: is_selected
is_selected(sq) == sq_selected = sq

\* Faulty variant of is_neighbor: the selected square is not excluded.
is_neighbor_WithSelected(sq) ==
  IF sq_selected = None THEN FALSE
  ELSE \/ col(sq) = col(sq_selected)
       \/ row(sq) = row(sq_selected)
       \/ block(sq) = block(sq_selected)

\* view_board_square: is_neighbor
is_neighbor(sq) ==
  /\ ~is_selected(sq)
  /\ IF sq_selected = None THEN FALSE
     ELSE \/ col(sq) = col(sq_selected)
          \/ row(sq) = row(sq_selected)
          \/ block(sq) = block(sq_selected)

\* view_board_square: is_selected_number
is_selected_number(sq) ==
  IF sq_selected = None THEN FALSE
  ELSE sudoku[sq] # None /\ sudoku[sq] = sudoku[sq_selected]

\* view_board_square: is_missed
is_missed(sq) == sq_missed = sq

\* ---- the application: init, the message queue and the clicks -------------
\* Faulty variant of InitApp: init does not send Msg::Reset.
InitApp_NoReset ==
  /\ sudoku = EmptyBoard
  /\ solution = EmptyBoard
  /\ sq_selected = None
  /\ sq_missed = None
  /\ miss_count = 0
  /\ state = Startup
  /\ clock = 0
  /\ panicked = FALSE
  /\ msg = [kind |-> "none", sq |-> None, num |-> None, phase |-> "Startup"]
  /\ last_put = NoPut
  /\ queue = <<>>

\* init: Model::default() with Msg::Reset sent (orders.send_msg) and the tick
\* stream subscribed.
InitApp ==
  /\ sudoku = EmptyBoard
  /\ solution = EmptyBoard
  /\ sq_selected = None
  /\ sq_missed = None
  /\ miss_count = 0
  /\ state = Startup
  /\ clock = 0
  /\ panicked = FALSE
  /\ msg = [kind |-> "none", sq |-> None, num |-> None, phase |-> "Startup"]
  /\ last_put = NoPut
  /\ queue = <<"Reset">>

\* The message init sent is processed before the first render, hence before
\* any tick of the interval stream and any click.
ProcessQueued ==
  /\ queue # <<>>
  /\ Head(queue) = "Reset"
  /\ Reset

\* streams::interval(100, || Msg::TimerTick)
TickApp ==
  /\ queue = <<>>
  /\ TimerTick

\* view_control_reset: ev(Ev::Click, |_| Msg::Reset)
ClickReset ==
  /\ queue = <<>>
  /\ Reset

\* view_board_square: ev(Ev::Click, move |_| Msg::SelectSquare(sq))
ClickSquare(sq) ==
  /\ queue = <<>>
  /\ SelectSquare(sq)

\* Faulty variant of ClickNumber: a completed digit still emits PutNumber.
ClickNumber_NoGuard(num) ==
  /\ queue = <<>>
  /\ sq_selected # None
  /\ PutNumber(sq_selected, num)

\* view_number: the click emits PutNumber { sq, num } only if num is not
\* flagged completed and a square is selected.
ClickNumber(num) ==
  /\ queue = <<>>
  /\ ~is_completed(num)
  /\ sq_selected # None
  /\ PutNumber(sq_selected, num)

NextApp ==
  \/ ProcessQueued
  \/ TickApp
  \/ ClickReset
  \/ \E sq \in InputSquares : ClickSquare(sq)
  \/ \E num \in Numbers : ClickNumber(num)

SpecApp == InitApp /\ [][NextApp]_vars

\* ---- one session: no Reset after the first -------------------------------
\* PutNumber with the solution's digit for a square that is still empty.
CorrectPut(sq) ==
  /\ state.tag = "Playing"
  /\ sudoku[sq] = None
  /\ PutNumber(sq, solution_at(sq))

\* Msg::Reset, for the first time.
FirstReset ==
  /\ state.tag = "Startup"
  /\ Reset

\* update, called with any message but a Reset once the session has started.
NextSession ==
  \/ FirstReset
  \/ TimerTick
  \/ \E sq \in InputSquares : SelectSquare(sq)
  \/ \E sq \in InputSquares : \E num \in InputNumbers(sq) : PutNumber(sq, num)

\* The player keeps placing correct digits: while a correct placement on some
\* empty square stays possible, one is eventually made.
SpecSession ==
  /\ Init
  /\ [][NextSession]_vars
  /\ WF_vars(\E sq \in HoleCandidates : CorrectPut(sq))

\* ---- the claims ----------------------------------------------------------
\* The step just taken processed a PutNumber whose digit is / is not the
\* solution's digit at its square (the solution is not changed by PutNumber).
WrongPut == msg'.kind = "PutNumber" /\ msg'.num # solution[msg'.sq]
RightPut == msg'.kind = "PutNumber" /\ msg'.num = solution[msg'.sq]

\* C1: after a Reset, PutNumber(c, d) with d different from the solution's
\* digit at c sets the miss marker to c, adds exactly 1 to the miss count and
\* leaves the working board, the phase and the selection unchanged.
C1_WrongPlacement ==
  [][(WrongPut /\ state.tag # "Startup")
       => /\ sq_missed' = msg'.sq
          /\ miss_count' = miss_count + 1
          /\ sudoku' = sudoku
          /\ state' = state
          /\ sq_selected' = sq_selected]_vars

\* A second wrong attempt has been counted, while playing, on a selected square.
C1_Witness ==
  /\ msg.kind = "PutNumber"
  /\ msg.phase = "Playing"
  /\ msg.num # solution[msg.sq]
  /\ sq_missed = msg.sq
  /\ sq_selected = msg.sq
  /\ miss_count = 2

\* C2: while Playing, PutNumber(c, d) with d the solution's digit at c leaves
\* d on the working board at c, clears the miss marker and keeps the miss
\* count, whatever c held before.
C2_RightPlacement ==
  [][(RightPut /\ state.tag = "Playing")
       => /\ sudoku'[msg'.sq] = msg'.num
          /\ sq_missed' = None
          /\ sq_missed' # msg'.sq
          /\ miss_count' = miss_count]_vars

\* A correct digit was placed on a square the generator can leave empty, after
\* a miss, and the session goes on.
C2_Witness ==
  /\ msg.kind = "PutNumber"
  /\ msg.phase = "Playing"
  /\ msg.sq \in HoleCandidates
  /\ msg.num = solution[msg.sq]
  /\ sudoku[msg.sq] = msg.num
  /\ sq_missed = None
  /\ miss_count = 1
  /\ state.tag = "Playing"

\* C3: the phase goes from Playing to Completed only by the PutNumber that
\* makes the working board equal to the solution, and that PutNumber does
\* complete; once Completed the phase is left only by Reset, to Playing.
C3_CompletedOnce ==
  [][/\ (state.tag = "Playing" /\ state'.tag = "Completed")
          => (msg'.kind = "PutNumber" /\ sudoku # solution /\ sudoku' = solution')
     /\ (msg'.kind = "PutNumber" /\ state.tag = "Playing" /\ sudoku' = solution')
          => state'.tag = "Completed"
     /\ (state.tag = "Completed" /\ state'.tag # "Completed")
          => (msg'.kind = "Reset" /\ state'.tag = "Playing")
     /\ (state.tag = "Completed" /\ msg'.kind # "Reset")
          => state' = state]_vars

\* A PutNumber has been processed in the Completed phase, which remained.
C3_Witness ==
  /\ state.tag = "Completed"
  /\ msg.kind = "PutNumber"
  /\ msg.phase = "Completed"
  /\ sudoku = solution

\* C4: Reset, from any phase, yields Playing (started now) with miss count 0,
\* no selection, no miss marker, and a puzzle and solution as the generator
\* returns them.
C4_Reset ==
  [][msg'.kind = "Reset"
       => /\ state' = Playing(clock')
          /\ miss_count' = 0
          /\ sq_selected' = None
          /\ sq_missed' = None
          /\ <<sudoku', solution'>> \in generate_unique]_vars

\* A Reset has been processed in the Completed phase.
C4_Witness ==
  /\ msg.kind = "Reset"
  /\ msg.phase = "Completed"
  /\ state.tag = "Playing"
  /\ sudoku # solution
  /\ miss_count = 0

\* C5: the miss count never decreases except at a Reset, which sets it to 0.
C5_MissCountMonotone ==
  [][/\ msg'.kind # "Reset" => miss_count' >= miss_count
     /\ miss_count' < miss_count => (msg'.kind = "Reset" /\ miss_count' = 0)]_vars

\* Two misses have been counted and a correct placement has followed.
C5_Witness ==
  /\ miss_count = 2
  /\ last_put.kind = "correct"
  /\ msg.kind = "PutNumber"

\* C6: the miss marker is c exactly when the last PutNumber since the last
\* Reset was a wrong attempt on c; a wrong attempt sets it, a correct placement
\* on any square clears it, TimerTick and SelectSquare keep it.
C6_MarkerIsLastMiss ==
  \A c \in Squares : (sq_missed = c) <=> (last_put = [kind |-> "wrong", sq |-> c])

C6_MissMarker ==
  /\ []C6_MarkerIsLastMiss
  /\ [][/\ (WrongPut /\ state.tag # "Startup") => sq_missed' = msg'.sq
        /\ (RightPut /\ state.tag # "Startup") => sq_missed' = None
        /\ msg'.kind \in {"TimerTick", "SelectSquare"} => sq_missed' = sq_missed]_vars

\* The marker of a second wrong attempt is still there after a later
\* selection of another square.
C6_Witness ==
  /\ sq_missed # None
  /\ miss_count = 2
  /\ msg.kind = "SelectSquare"
  /\ msg.sq # sq_missed

\* C7, as stated: the selection changes only at a SelectSquare.
C7_OnlySelectChangesSelection ==
  [][sq_selected' # sq_selected => msg'.kind = "SelectSquare"]_vars

\* C7, amended: the selection changes only at a SelectSquare or at a Reset
\* (which clears it); PutNumber and TimerTick never change it.
C7_SelectionFrame ==
  [][/\ sq_selected' # sq_selected => msg'.kind \in {"SelectSquare", "Reset"}
     /\ msg'.kind = "Reset" => sq_selected' = None
     /\ msg'.kind \in {"PutNumber", "TimerTick"} => sq_selected' = sq_selected]_vars

\* The selection is still there after the placement that completed the puzzle.
C7_Witness ==
  /\ sq_selected # None
  /\ msg.kind = "PutNumber"
  /\ msg.phase = "Playing"
  /\ state.tag = "Completed"

\* C8: SelectSquare(c) is processed in every phase, sets the selection to c
\* and changes nothing else of the model; a second SelectSquare(c) right
\* after the first changes nothing at all.
C8_SelectSquare ==
  [][msg'.kind = "SelectSquare"
       => /\ ~panicked'
          /\ sq_selected' = msg'.sq
          /\ UNCHANGED <<sq_missed, miss_count, state, sudoku, solution>>
          /\ (msg.kind = "SelectSquare" /\ msg.sq = msg'.sq) => UNCHANGED modelVars]_vars

\* A square has been selected in the Startup phase.
C8_Witness ==
  /\ msg.kind = "SelectSquare"
  /\ msg.phase = "Startup"
  /\ state.tag = "Startup"
  /\ sq_selected = msg.sq

\* C9: TimerTick changes neither the phase (start instant and duration
\* included) nor the selection, the miss marker, the miss count, the working
\* board or the solution.
C9_TimerTick ==
  [][msg'.kind = "TimerTick" => (UNCHANGED modelVars /\ ~panicked')]_vars

\* A tick was processed while Playing, later than the start instant, with a
\* selection and a miss marker in place.
C9_Witness ==
  /\ msg.kind = "TimerTick"
  /\ state.tag = "Playing"
  /\ clock > state.now
  /\ sq_selected # None
  /\ sq_missed # None

\* C10, as stated: a PutNumber processed while Completed changes nothing.
C10_PutAfterCompletedNoOp ==
  [][(msg'.kind = "PutNumber" /\ state.tag = "Completed") => UNCHANGED modelVars]_vars

\* C10, amended: a PutNumber processed while Completed keeps the phase and its
\* duration, the working board and the selection; with the solution's digit it
\* keeps the miss count and clears the miss marker (a no-op when no marker is
\* set), with any other digit it sets the miss marker to its square and adds 1
\* to the miss count.
C10_PutAfterCompleted ==
  [][(msg'.kind = "PutNumber" /\ state.tag = "Completed")
       => /\ state' = state
          /\ sudoku' = sudoku
          /\ sq_selected' = sq_selected
          /\ IF msg'.num = solution[msg'.sq]
               THEN /\ sq_missed' = None
                    /\ miss_count' = miss_count
                    /\ sq_missed = None => UNCHANGED modelVars
               ELSE sq_missed' = msg'.sq /\ miss_count' = miss_count + 1]_vars

\* A correct digit was put again while Completed, later than the completion.
C10_Witness ==
  /\ state.tag = "Completed"
  /\ msg.kind = "PutNumber"
  /\ msg.phase = "Completed"
  /\ msg.num = solution[msg.sq]
  /\ clock > state.dur
  /\ sq_missed = None

\* C11: whenever the phase is Completed, every square of the working board is
\* filled and holds the solution's digit for that square.
C11_CompletedIsSolved ==
  state.tag = "Completed"
    => \A sq \in Squares : sudoku[sq] # None /\ sudoku[sq] = solution[sq]

\* The session was completed by a placement that followed a miss.
C11_Witness ==
  /\ state.tag = "Completed"
  /\ msg.kind = "PutNumber"
  /\ msg.phase = "Playing"
  /\ miss_count = 1
  /\ sudoku = solution

\* C12: for every digit n the palette's completed flag is true exactly when 9
\* squares of the working board hold n.
C12_PaletteFlag ==
  \A n \in Numbers :
    is_completed(n) <=> Cardinality({sq \in Squares : sudoku[sq] = n}) = 9

\* While Playing, the digit missing on the only empty square is not flagged
\* and the other eight digits are.
C12_Witness ==
  /\ state.tag = "Playing"
  /\ Cardinality({sq \in Squares : sudoku[sq] = None}) = 1
  /\ \E n \in Numbers :
       /\ ~is_completed(n)
       /\ \A m \in Numbers \ {n} : is_completed(m)

\* C15: a square c is flagged neighbor exactly when some square s is selected,
\* c is not s and c shares a column, a row or a block with s; no square is
\* flagged selected and neighbor; without a selection no square is flagged
\* neighbor or selectedNumber.
C15_NeighborFlag ==
  \A c \in Squares :
    /\ is_neighbor(c) <=> (\E s \in Squares : sq_selected = s /\ c # s /\ c \in Peers[s])
    /\ ~(is_selected(c) /\ is_neighbor(c))
    /\ sq_selected = None => (~is_neighbor(c) /\ ~is_selected_number(c))

\* A filled square is selected: its 20 peers are flagged neighbor, it is not,
\* and the squares holding its digit are flagged selectedNumber.
C15_Witness ==
  /\ sq_selected # None
  /\ sudoku[sq_selected] # None
  /\ Cardinality({c \in Squares : is_neighbor(c)}) = 20
  /\ ~is_neighbor(sq_selected)
  /\ Cardinality({c \in Squares : is_selected_number(c)}) = 9

\* C13: the phase changes only from Startup to Playing by Reset, from Playing
\* to Completed by the PutNumber that completes the board, and from Completed
\* to Playing by Reset; Reset always ends in Playing; TimerTick, SelectSquare
\* and a PutNumber that is wrong or leaves the board incomplete keep the
\* phase; Startup is never entered again.
C13_PhaseTransitions ==
  [][/\ state'.tag # state.tag
          => \/ state.tag = "Startup" /\ msg'.kind = "Reset" /\ state'.tag = "Playing"
             \/ /\ state.tag = "Playing" /\ state'.tag = "Completed"
                /\ msg'.kind = "PutNumber" /\ sudoku' = solution
             \/ state.tag = "Completed" /\ msg'.kind = "Reset" /\ state'.tag = "Playing"
     /\ msg'.kind = "Reset" => state'.tag = "Playing"
     /\ msg'.kind \in {"TimerTick", "SelectSquare"} => state'.tag = state.tag
     /\ (msg'.kind = "PutNumber" /\ (msg'.num # solution[msg'.sq] \/ sudoku' # solution))
          => state'.tag = state.tag
     /\ state'.tag = "Startup" => state.tag = "Startup"]_vars

\* A Reset was processed while Playing, later than the first instant.
C13_Witness ==
  /\ state.tag = "Playing"
  /\ msg.kind = "Reset"
  /\ msg.phase = "Playing"
  /\ clock > 0

\* C14: the duration stored on entering Completed is the clock at the
\* completing PutNumber minus the start instant, hence >= 0; Reset sets the
\* start instant to the clock and no other message changes it; no message but
\* Reset changes the stored duration; the clock never goes back.
C14_Duration ==
  [][/\ (state.tag = "Playing" /\ state'.tag = "Completed")
          => (state'.dur = clock' - state.now /\ state'.dur >= 0)
     /\ msg'.kind = "Reset" => state'.now = clock'
     /\ (state.tag = "Playing" /\ msg'.kind # "Reset" /\ state'.tag = "Playing")
          => state'.now = state.now
     /\ (state.tag = "Completed" /\ msg'.kind # "Reset") => state' = state
     /\ clock' >= clock]_vars

\* A session started after time had passed was completed with duration 0, and
\* a tick has been processed since.
C14_Witness ==
  /\ state.tag = "Completed"
  /\ state.dur = 0
  /\ clock > 0
  /\ msg.kind = "TimerTick"
  /\ msg.phase = "Completed"

\* C16: when put() rejects a placement of the solution's digit, the working
\* board, the miss count and the selection stay as they are, the miss marker
\* is cleared, update does not panic, and the phase changes only to Completed
\* and only on a board is_solved() accepts.
C16_PutRejected ==
  [][(RightPut /\ state.tag # "Startup" /\ ~put(sudoku, msg'.sq, msg'.num).ok)
       => /\ sudoku' = sudoku
          /\ sq_missed' = None
          /\ miss_count' = miss_count
          /\ sq_selected' = sq_selected
          /\ ~panicked'
          /\ state' # state => (state'.tag = "Completed" /\ is_solved(sudoku'))]_vars

\* The solution's digit was put on a given (which put() rejects) while Playing
\* with a square still empty, after a miss.
C16_Witness ==
  /\ msg.kind = "PutNumber"
  /\ msg.phase = "Playing"
  /\ msg.sq \notin HoleCandidates
  /\ msg.num = solution[msg.sq]
  /\ state.tag = "Playing"
  /\ miss_count = 1
  /\ sq_missed = None
  /\ ~panicked

\* C17: after the first Reset every filled square of the working board holds
\* the solution's digit, and between two Resets a filled square keeps its digit.
C17_BoardWithinSolution ==
  state.tag # "Startup"
    => \A sq \in Squares : sudoku[sq] # None => sudoku[sq] = solution[sq]

C17_BoardOnlyGrows ==
  /\ []C17_BoardWithinSolution
  /\ [][msg'.kind # "Reset"
          => \A sq \in Squares : sudoku[sq] # None => sudoku'[sq] = sudoku[sq]]_vars

\* A wrong digit was tried on a square that is still empty, after another
\* square had been filled.
C17_Witness ==
  /\ state.tag = "Playing"
  /\ msg.kind = "PutNumber"
  /\ msg.num # solution[msg.sq]
  /\ sudoku[msg.sq] = None
  /\ \E sq \in HoleCandidates : sudoku[sq] # None

\* C18: started from init, the first message processed is the Reset init
\* sent; every PutNumber is processed after it, on a solution with all 81
\* squares filled, and update never panics.
C18_ResetFirst ==
  /\ [](~panicked)
  /\ [][/\ msg.kind = "none" => msg'.kind = "Reset"
        /\ msg'.kind = "PutNumber"
             => (state.tag # "Startup" /\ \A sq \in Squares : solution_at(sq) # None)]_vars

\* A PutNumber from the palette has been processed, with the queue empty.
C18_Witness ==
  /\ msg.kind = "PutNumber"
  /\ msg.sq = sq_selected
  /\ queue = <<>>
  /\ state.tag # "Startup"
  /\ ~panicked

\* C19: with PutNumber coming from the palette only, every Completed state has
\* all nine digits flagged completed; no PutNumber is processed while
\* Completed, and the miss count, the miss marker and the working board stay
\* as they are until the next Reset.
C19_PaletteClosed ==
  /\ [](state.tag = "Completed" => \A n \in Numbers : is_completed(n))
  /\ [][state.tag = "Completed"
          => /\ msg'.kind # "PutNumber"
             /\ msg'.kind # "Reset" => UNCHANGED <<miss_count, sq_missed, sudoku>>]_vars

\* A square was selected while Completed, in a session with a counted miss.
C19_Witness ==
  /\ state.tag = "Completed"
  /\ msg.kind = "SelectSquare"
  /\ msg.phase = "Completed"
  /\ miss_count > 0
  /\ \A n \in Numbers : is_completed(n)

\* C20: in a session without a further Reset, in which correct placements for
\* the empty squares keep being delivered, every Playing state is followed by
\* a Completed state, whatever ticks, selections and wrong placements occur.
C20_EventuallyCompleted == (state.tag = "Playing") ~> (state.tag = "Completed")

\* The session was completed after as many misses as are counted, with a
\* square selected.
C20_Witness ==
  /\ state.tag = "Completed"
  /\ msg.kind = "PutNumber"
  /\ msg.phase = "Playing"
  /\ miss_count = MaxMiss
  /\ sq_selected # None
  /\ clock > 0
====
